---- MODULE Spec2Model ----
(***************************************************************************)
(* State-machine model of the doc-vault permission-aware versioned         *)
(* document core: DocumentService, AccessService and the repositories they *)
(* drive.  Strings are sequences of one-token strings so that path and     *)
(* file-name concatenation and LIKE matching are computed, not assumed.    *)
(* An absent optional value (Python None) is the empty sequence.           *)
(***************************************************************************)
EXTENDS Integers, Sequences, FiniteSets, Bags, TLC

\* ------------------------------------------------------------------ bounds
MaxDocs == 2
MaxVersion == 3
MaxTime == 1
MaxAclRows == 4
MaxCalls == 3

\* ------------------------------------------------------------- input sets
Agents == {"a1", "a2"}
Org == "o1"
Perms == {"READ", "WRITE", "DELETE", "SHARE", "ADMIN"}
None == <<>>
NameA == <<"a">>
NameCaretA == <<"^", "a", "$">>
Names == {NameA, NameCaretA}
PrefixP == <<"/", "p", "/">>
Prefixes == {None, PrefixP}
ContentNew == <<"x">>
ContentNext == <<"y", "y">>
FileTxt == <<"f", ".txt">>
FilenameInputs == {None, FileTxt}
DocIds == 1..MaxDocs
VersionArgs == {None} \cup {<<n>> : n \in 1..MaxVersion}

\* ---------------------------------------------------------------- strings
Contains(hay, needle) ==
    \E i \in 1..(Len(hay) - Len(needle) + 1) :
        SubSeq(hay, i, i + Len(needle) - 1) = needle

StartsWith(s, p) == Len(p) <= Len(s) /\ SubSeq(s, 1, Len(p)) = p

\* DocumentRepository.search_by_name: name ILIKE '%' || name_query || '%'
ILikeContains(name, name_query) == Contains(name, name_query)

\* DocumentService._find_existing_document: name_query = f"^{name}$"
ExactQuery(name) == <<"^">> \o name \o <<"$">>

\* DocumentService._generate_storage_path: "{document_id}/v{n}/{filename}"
GenerateStoragePath(d, n, filename) == <<d, n, filename>>

\* DocumentService._detect_mime_type (mimetypes.guess_type on the extension)
DetectMimeType(filename) ==
    IF filename # None /\ filename[Len(filename)] = ".txt"
    THEN "text/plain" ELSE "application/octet-stream"

\* DocumentService._extract_file_info for bytes input: (content, "document", len)
FileSize(content) == Len(content)
DetectedFilename == <<"document">>

\* ------------------------------------------------------------------ state
VARIABLES docs, versions, acl, storage, now, nextDocId, last, inflight, calls,
          registered, sdk

vars == <<docs, versions, acl, storage, now, nextDocId, last, inflight, calls,
          registered, sdk>>

Procs == {"p1", "p2"}
Idle == [pc |-> "idle", doc |-> 0, agent |-> "-", new_version_number |-> 0,
         filename |-> <<>>]

EmptyFn == [x \in {} |-> 0]

\* the last call made and how it ended
Outcome(op, result) == [op |-> op, result |-> result]

\* DocVaultSDK.__init__: five handles are None, the organization and agent
\* service attributes are not assigned at all
Constructed ==
    [db_manager |-> "None", storage_backend |-> "None",
     document_service |-> "None", access_service |-> "None",
     version_service |-> "None", organization_service |-> "unset",
     agent_service |-> "unset", initialized |-> FALSE]

\* DocVaultSDK.__aenter__; ok is whether PostgreSQLManager.initialize returns
AEnter(s, ok) ==
    IF s.initialized THEN s
    ELSE IF ~ok THEN [s EXCEPT !.db_manager = "set"]
    ELSE [db_manager |-> "set", storage_backend |-> "set",
          document_service |-> "set", access_service |-> "set",
          version_service |-> "set", organization_service |-> "set",
          agent_service |-> "set", initialized |-> TRUE]

\* DocVaultSDK.__aexit__
AExit(s) ==
    [db_manager |-> "None", storage_backend |-> "None",
     document_service |-> "None", access_service |-> "None",
     version_service |-> "None", organization_service |-> "None",
     agent_service |-> "None", initialized |-> FALSE]

\* the database as the operations find it: one organization and its agents
\* registered, no document
InitData ==
    /\ docs = EmptyFn
    /\ versions = <<>>
    /\ acl = EmptyBag
    /\ storage = EmptyFn
    /\ now = 0
    /\ nextDocId = 1
    /\ last = Outcome("init", "ok")
    /\ inflight = [p \in Procs |-> Idle]
    /\ calls = 0
    \* the organization and its agents have been registered
    /\ registered = [orgs |-> {Org}, agents |-> Agents]

\* the operations are studied inside `async with DocVaultSDK(...)`
Init == InitData /\ sdk = AEnter(Constructed, TRUE)

\* _check_agent_exists: agent_repo.get_by_id finds a row
AgentExists(a) == a \in registered.agents

\* ------------------------------------------------------------- ACL engine
AclRow(d, a, p, e, by) ==
    [doc |-> d, agent |-> a, permission |-> p, expires_at |-> e, granted_by |-> by]

\* a grant whose expires_at lies in the past
Expired(e, t) == e # None /\ e[1] < t

AclRows(A) == BagToSet(A)

\* ACLRepository.check_permission: an unexpired row for the level asked, or
\* for ADMIN
RepoCheckPermission(A, t, d, a, p) ==
    \E r \in AclRows(A) :
        /\ r.doc = d /\ r.agent = a
        /\ r.permission \in {p, "ADMIN"}
        /\ ~Expired(r.expires_at, t)

\* ACLRepository.create / create_from_create_schema: plain INSERT
RepoAclCreate(A, row) == A (+) SetToBag({row})

\* a delete that takes every row the agent has on the document
RepoAclDeleteAllOfAgent(A, d, a, p) ==
    LET keep == {r \in DOMAIN A : ~(r.doc = d /\ r.agent = a)}
    IN  [r \in keep |-> A[r]]

\* ACLRepository.delete_by_document_agent_permission
RepoAclDelete(A, d, a, p) ==
    LET keep == {r \in DOMAIN A : ~(r.doc = d /\ r.agent = a /\ r.permission = p)}
    IN  [r \in keep |-> A[r]]

\* ACLRepository.get_by_document: every row of the document, expired or not
RepoAclByDocument(A, d) ==
    LET keep == {r \in DOMAIN A : r.doc = d}
    IN  [r \in keep |-> A[r]]

\* ACLRepository.get_by_document_and_agent
RepoAclByDocumentAndAgent(A, d, a) ==
    LET keep == {r \in DOMAIN A : r.doc = d /\ r.agent = a}
    IN  [r \in keep |-> A[r]]

\* ON DELETE CASCADE from documents
AclWithoutDoc(A, d) ==
    LET keep == {r \in DOMAIN A : r.doc # d}
    IN  [r \in keep |-> A[r]]

\* ----------------------------------------------------------- repositories
DocExists(D, d) == d \in DOMAIN D

\* _check_document_exists: NotFound when absent or soft-deleted
DocVisible(D, d) == DocExists(D, d) /\ D[d].status # "deleted"

VersionsOf(V, d) == SelectSeq(V, LAMBDA r : r.doc = d)

VersionNumbers(V, d) == {V[i].version_number : i \in {j \in 1..Len(V) : V[j].doc = d}}

\* VersionRepository.get_by_document_and_version
RepoGetVersion(V, d, n) ==
    SelectSeq(V, LAMBDA r : r.doc = d /\ r.version_number = n)

VersionRow(d, n, filename, content, path, ctype, by) ==
    [doc |-> d, version_number |-> n, filename |-> filename,
     file_size |-> FileSize(content), mime_type |-> DetectMimeType(filename),
     storage_path |-> path, change_type |-> ctype, created_by |-> by]

\* object store: put / delete on a map from key to bytes
StoragePut(S, path, content) ==
    [k \in DOMAIN S \cup {path} |-> IF k = path THEN content ELSE S[k]]

StorageDelete(S, paths) == [k \in DOMAIN S \ paths |-> S[k]]


\* ------------------------------------------------------- operation effects
\* The value an operation leaves behind: the new tables and object store,
\* the kind of error raised ("ok" when none) and the value returned.
Effect(D, V, A, S, nid, result, out) ==
    [docs |-> D, versions |-> V, acl |-> A, storage |-> S, nextDocId |-> nid,
     result |-> result, out |-> out]

\* an exception raised before any write
Fail(result) == Effect(docs, versions, acl, storage, nextDocId, result, None)

\* an exception raised inside "async with conn.transaction()": the database
\* writes of the block are rolled back, object-store writes are not
Rollback(S, result) == Effect(docs, versions, acl, S, nextDocId, result, None)

\* outcomes of the collaborators an operation cannot control
Envs == [put : BOOLEAN, del : BOOLEAN, vupd : {"error", "nomatch"},
         dbw : {"ok", "update", "insert"}]

\* DocumentBase.validate_prefix / DocumentCreate.validate_prefix
ValidPrefix(prefix) ==
    \/ prefix = None
    \/ /\ prefix[1] = "/"
       /\ prefix[Len(prefix)] = "/"
       /\ ~Contains(prefix, <<"/", "/">>)

\* path built in _create_new_document and upload_document_to_prefix
BuildPath(prefix, name) ==
    IF prefix # None THEN prefix \o name ELSE <<"/">> \o name

DocRow(name, prefix, path, filename, content, storage_path, by) ==
    [org |-> Org, name |-> name, prefix |-> prefix, path |-> path,
     filename |-> filename, file_size |-> FileSize(content),
     mime_type |-> DetectMimeType(filename), storage_path |-> storage_path,
     current_version |-> 1, status |-> "active", created_by |-> by]

DocInsert(D, d, row) == [k \in DOMAIN D \cup {d} |-> IF k = d THEN row ELSE D[k]]

\* DocumentService._create_new_document
CreateNewDocumentNoRollback(name, prefix, a, content, fname, env) ==
    LET d == nextDocId
        f0 == IF fname # None THEN fname ELSE DetectedFilename
        final == IF f0 = None \/ f0 = DetectedFilename THEN name \o <<".bin">> ELSE f0
        sp == GenerateStoragePath(d, 1, final)
        row == DocRow(name, prefix, BuildPath(prefix, name), final, content, sp, a)
    IN  IF ~ValidPrefix(prefix) THEN Fail("Validation")
        ELSE IF ~env.put
        THEN Effect(DocInsert(docs, d, row), versions, acl, storage, d + 1,
                    "StorageError", None)
        ELSE Effect(DocInsert(docs, d, row),
                    Append(versions, VersionRow(d, 1, final, content, sp, "create", a)),
                    RepoAclCreate(acl, AclRow(d, a, "ADMIN", None, a)),
                    StoragePut(storage, sp, content), d + 1, "ok", d)

CreateNewDocument(name, prefix, a, content, fname, env) ==
    LET d == nextDocId
        f0 == IF fname # None THEN fname ELSE DetectedFilename
        final == IF f0 = None \/ f0 = DetectedFilename THEN name \o <<".bin">> ELSE f0
        sp == GenerateStoragePath(d, 1, final)
        row == DocRow(name, prefix, BuildPath(prefix, name), final, content, sp, a)
    IN  IF ~ValidPrefix(prefix) THEN Fail("Validation")
        ELSE IF ~env.put THEN Rollback(storage, "StorageError")
        ELSE Effect(DocInsert(docs, d, row),
                    Append(versions, VersionRow(d, 1, final, content, sp, "create", a)),
                    RepoAclCreate(acl, AclRow(d, a, "ADMIN", None, a)),
                    StoragePut(storage, sp, content), d + 1, "ok", d)

\* the version-creating transaction of replace_document_content and
\* replace_document, for a next version number n computed by the caller
CreateVersionTxnStaleDocument(d, n, a, content, final, ctype, env) ==
    LET sp == GenerateStoragePath(d, n, final)
    IN  IF ~env.put THEN Rollback(storage, "StorageError")
        ELSE Effect([docs EXCEPT ![d] = [@ EXCEPT !.filename = final,
                                                   !.file_size = FileSize(content),
                                                   !.mime_type = DetectMimeType(final),
                                                   !.storage_path = sp]],
                    Append(versions, VersionRow(d, n, final, content, sp, ctype, a)),
                    acl, StoragePut(storage, sp, content), nextDocId, "ok", n)

CreateVersionTxnOverwritesCurrent(d, n, a, content, final, ctype, env) ==
    LET sp == GenerateStoragePath(d, n, final)
    IN  IF ~env.put THEN Rollback(storage, "StorageError")
        ELSE Effect([docs EXCEPT ![d] = [@ EXCEPT !.current_version = n,
                                                   !.filename = final,
                                                   !.file_size = FileSize(content),
                                                   !.mime_type = DetectMimeType(final),
                                                   !.storage_path = sp]],
                    Append(versions, VersionRow(d, n, final, content, sp, ctype, a)),
                    acl,
                    StoragePut(StoragePut(storage, docs[d].storage_path, content),
                               sp, content),
                    nextDocId, "ok", n)

CreateVersionTxnReplacesRow(d, n, a, content, final, ctype, env) ==
    LET sp == GenerateStoragePath(d, n, final)
    IN  IF ~env.put THEN Rollback(storage, "StorageError")
        ELSE Effect([docs EXCEPT ![d] = [@ EXCEPT !.current_version = n,
                                                   !.filename = final,
                                                   !.file_size = FileSize(content),
                                                   !.mime_type = DetectMimeType(final),
                                                   !.storage_path = sp]],
                    Append(SelectSeq(versions, LAMBDA r : r.doc # d),
                           VersionRow(d, n, final, content, sp, ctype, a)),
                    acl, StoragePut(storage, sp, content), nextDocId, "ok", n)

CreateVersionTxnNoRollback(d, n, a, content, final, ctype, env) ==
    LET sp == GenerateStoragePath(d, n, final)
        D2 == [docs EXCEPT ![d] = [@ EXCEPT !.current_version = n,
                                             !.filename = final,
                                             !.file_size = FileSize(content),
                                             !.mime_type = DetectMimeType(final),
                                             !.storage_path = sp]]
    IN  IF ~env.put THEN Rollback(storage, "StorageError")
        ELSE IF env.dbw = "update"
        THEN Rollback(StoragePut(storage, sp, content), "DatabaseError")
        ELSE IF env.dbw = "insert"
        THEN Effect(D2, versions, acl, StoragePut(storage, sp, content), nextDocId,
                    "DatabaseError", None)
        ELSE Effect(D2, Append(versions, VersionRow(d, n, final, content, sp, ctype, a)),
                    acl, StoragePut(storage, sp, content), nextDocId, "ok", n)

CreateVersionTxn(d, n, a, content, final, ctype, env) ==
    LET sp == GenerateStoragePath(d, n, final)
    IN  IF ~env.put THEN Rollback(storage, "StorageError")
        \* document_repo.update or version_repo.create_from_create_schema
        \* raising after the object was stored
        ELSE IF env.dbw # "ok"
        THEN Rollback(StoragePut(storage, sp, content), "DatabaseError")
        ELSE Effect([docs EXCEPT ![d] = [@ EXCEPT !.current_version = n,
                                                   !.filename = final,
                                                   !.file_size = FileSize(content),
                                                   !.mime_type = DetectMimeType(final),
                                                   !.storage_path = sp]],
                    Append(versions, VersionRow(d, n, final, content, sp, ctype, a)),
                    acl, StoragePut(storage, sp, content), nextDocId, "ok", n)

\* the create_version=False branch of replace_document_content
ReplaceInPlaceTxnBumpsVersion(d, a, content, final, env) ==
    LET sp == docs[d].storage_path
        S1 == IF env.del THEN StorageDelete(storage, {sp}) ELSE storage
        S2 == StoragePut(S1, sp, content)
        D2 == [docs EXCEPT ![d] = [@ EXCEPT !.filename = final,
                                             !.file_size = FileSize(content),
                                             !.mime_type = DetectMimeType(final),
                                             !.current_version = @ + 1]]
    IN  IF ~env.put THEN Rollback(S1, "StorageError")
        ELSE IF env.vupd = "error" THEN Rollback(S2, "DatabaseError")
        ELSE Effect(D2, versions, acl, S2, nextDocId, "ok", d)

ReplaceInPlaceTxnRowByNumber(d, a, content, final, env) ==
    LET sp == docs[d].storage_path
        S1 == IF env.del THEN StorageDelete(storage, {sp}) ELSE storage
        S2 == StoragePut(S1, sp, content)
        D2 == [docs EXCEPT ![d] = [@ EXCEPT !.filename = final,
                                             !.file_size = FileSize(content),
                                             !.mime_type = DetectMimeType(final)]]
        n == docs[d].current_version
        V2 == IF n \in 1..Len(versions)
              THEN [versions EXCEPT ![n] = [@ EXCEPT !.filename = final,
                                                     !.file_size = FileSize(content),
                                                     !.storage_path = sp,
                                                     !.mime_type = DetectMimeType(final)]]
              ELSE versions
    IN  IF ~env.put THEN Rollback(S1, "StorageError")
        ELSE IF env.vupd = "error" THEN Rollback(S2, "DatabaseError")
        ELSE Effect(D2, V2, acl, S2, nextDocId, "ok", d)

ReplaceInPlaceTxn(d, a, content, final, env) ==
    LET sp == docs[d].storage_path
        S1 == IF env.del THEN StorageDelete(storage, {sp}) ELSE storage
        S2 == StoragePut(S1, sp, content)
        D2 == [docs EXCEPT ![d] = [@ EXCEPT !.filename = final,
                                             !.file_size = FileSize(content),
                                             !.mime_type = DetectMimeType(final)]]
    IN  IF ~env.put THEN Rollback(S1, "StorageError")
        \* version_repo.update is handed document.current_version, an integer,
        \* where the row id is expected: no version row has that id
        ELSE IF env.vupd = "error" THEN Rollback(S2, "DatabaseError")
        ELSE Effect(D2, versions, acl, S2, nextDocId, "ok", d)

\* DocumentService.replace_document_content
ReplaceDocumentContent(d, a, content, fname, cv, env) ==
    IF ~DocVisible(docs, d) THEN Fail("NotFound")
    ELSE IF ~RepoCheckPermission(acl, now, d, a, "WRITE") THEN Fail("PermissionDenied")
    ELSE LET f0 == IF fname # None THEN fname ELSE DetectedFilename
             final == IF f0 = DetectedFilename THEN docs[d].filename ELSE f0
         IN  IF cv
             THEN CreateVersionTxn(d, docs[d].current_version + 1, a, content,
                                   final, "update", env)
             ELSE ReplaceInPlaceTxn(d, a, content, final, env)

\* the prefix of a row as search_by_name loads it: its column list leaves
\* prefix out, so _row_to_model's row.get("prefix") is None
SearchRowPrefix(d) == None

\* DocumentRepository.search_by_name with limit 1 (ORDER BY created_at DESC)
SearchByNameTop(name_query) ==
    LET hits == {d \in DOMAIN docs : /\ docs[d].org = Org
                                     /\ ILikeContains(docs[d].name, name_query)
                                     /\ docs[d].status = "active"}
    IN  IF hits = {} THEN {} ELSE {CHOOSE d \in hits : \A e \in hits : e <= d}

\* DocumentService._find_existing_document
FindExistingDocument(name, prefix) ==
    LET top == SearchByNameTop(ExactQuery(name))
    IN  IF top = {} THEN {}
        ELSE IF prefix # None
             THEN {d \in top : SearchRowPrefix(d) = prefix}
             ELSE top

\* DocumentService.upload_enhanced
UploadEnhanced(name, prefix, a, content, fname, cv, env) ==
    LET existing == FindExistingDocument(name, prefix)
    IN  IF existing # {}
        THEN ReplaceDocumentContent(CHOOSE d \in existing : TRUE, a, content,
                                    fname, cv, env)
        ELSE CreateNewDocument(name, prefix, a, content, fname, env)


\* DocumentService.replace_document (file-path input: the file name is given)
ReplaceDocument(d, a, content, fname, env) ==
    IF ~DocVisible(docs, d) THEN Fail("NotFound")
    ELSE IF ~RepoCheckPermission(acl, now, d, a, "WRITE") THEN Fail("PermissionDenied")
    ELSE CreateVersionTxn(d, docs[d].current_version + 1, a, content, fname,
                          "update", env)

\* DocumentService.upload_document (file-path input; no prefix, no path)
UploadDocument(name, a, content, fname, env) ==
    LET d == nextDocId
        sp == GenerateStoragePath(d, 1, fname)
        row == DocRow(name, None, None, fname, content, sp, a)
    IN  IF ~env.put THEN Rollback(storage, "StorageError")
        ELSE Effect(DocInsert(docs, d, row),
                    Append(versions, VersionRow(d, 1, fname, content, sp, "create", a)),
                    RepoAclCreate(acl, AclRow(d, a, "ADMIN", None, a)),
                    StoragePut(storage, sp, content), d + 1, "ok", d)

\* DocumentService.upload_document_to_prefix (bytes input): object first, then
\* the document row, then version 1; no transaction and no ACL row
UploadDocumentToPrefix(name, prefix, a, content, env) ==
    LET d == nextDocId
        sp == GenerateStoragePath(d, 1, name)
        row == [DocRow(name, prefix, BuildPath(prefix, name), name, content, sp, a)
                    EXCEPT !.mime_type = "application/octet-stream"]
        ver == [VersionRow(d, 1, name, content, sp, "create", a)
                    EXCEPT !.mime_type = "application/octet-stream"]
    IN  IF prefix # None /\ (prefix[1] # "/" \/ prefix[Len(prefix)] # "/")
        THEN Fail("Validation")
        ELSE IF ~ValidPrefix(prefix) THEN Fail("StorageError")
        ELSE IF ~env.put THEN Fail("StorageError")
        ELSE Effect(DocInsert(docs, d, row), Append(versions, ver), acl,
                    StoragePut(storage, sp, content), d + 1, "ok", d)

\* DocumentService.download_document
DownloadDocument(d, a, ver) ==
    IF ~DocVisible(docs, d) THEN Fail("NotFound")
    ELSE IF ~RepoCheckPermission(acl, now, d, a, "READ") THEN Fail("PermissionDenied")
    ELSE LET rows == RepoGetVersion(versions, d, IF ver = None THEN 0 ELSE ver[1])
             found == ver = None \/ rows # <<>>
             sp == IF ver = None THEN docs[d].storage_path
                   ELSE IF rows # <<>> THEN rows[1].storage_path ELSE None
         IN  IF ~found THEN Fail("Validation")
             ELSE IF sp \notin DOMAIN storage THEN Fail("StorageError")
             ELSE [Fail("ok") EXCEPT !.out = storage[sp]]

\* DocumentService.update_metadata (name only; description, tags and the
\* metadata map are opaque payload)
UpdateMetadataUnchecked(d, a, name) ==
    IF ~DocVisible(docs, d) THEN Fail("NotFound")
    ELSE Effect([docs EXCEPT ![d] = [@ EXCEPT !.name = IF name # None THEN name ELSE @]],
                versions, acl, storage, nextDocId, "ok", d)

UpdateMetadata(d, a, name) ==
    IF ~DocVisible(docs, d) THEN Fail("NotFound")
    ELSE IF ~RepoCheckPermission(acl, now, d, a, "WRITE") THEN Fail("PermissionDenied")
    ELSE Effect([docs EXCEPT ![d] = [@ EXCEPT !.name = IF name # None THEN name ELSE @]],
                versions, acl, storage, nextDocId, "ok", d)

\* the object keys delete_document(hard_delete=True) tries to remove
HardDeletePaths(d) ==
    {versions[i].storage_path : i \in {j \in 1..Len(versions) : versions[j].doc = d}}
        \cup {docs[d].storage_path}

\* DocumentService.delete_document; failed = the keys whose deletion raised
\* the hard delete giving up when an object cannot be removed
DeleteDocumentStopsOnStorageError(d, a, hard, failed) ==
    IF ~DocVisible(docs, d) THEN Fail("NotFound")
    ELSE IF ~RepoCheckPermission(acl, now, d, a, "DELETE") THEN Fail("PermissionDenied")
    ELSE IF hard /\ failed # {} THEN Fail("StorageError")
    ELSE IF hard
         THEN Effect([k \in DOMAIN docs \ {d} |-> docs[k]],
                     SelectSeq(versions, LAMBDA r : r.doc # d),
                     AclWithoutDoc(acl, d),
                     StorageDelete(storage, HardDeletePaths(d)),
                     nextDocId, "ok", d)
         ELSE Effect([docs EXCEPT ![d] = [@ EXCEPT !.status = "deleted"]],
                     versions, acl, storage, nextDocId, "ok", d)

DeleteDocument(d, a, hard, failed) ==
    IF ~DocVisible(docs, d) THEN Fail("NotFound")
    ELSE IF ~RepoCheckPermission(acl, now, d, a, "DELETE") THEN Fail("PermissionDenied")
    ELSE IF hard
         THEN Effect([k \in DOMAIN docs \ {d} |-> docs[k]],
                     SelectSeq(versions, LAMBDA r : r.doc # d),
                     AclWithoutDoc(acl, d),
                     StorageDelete(storage, HardDeletePaths(d) \ failed),
                     nextDocId, "ok", d)
         ELSE Effect([docs EXCEPT ![d] = [@ EXCEPT !.status = "deleted"]],
                     versions, acl, storage, nextDocId, "ok", d)


\* ---------------------------------------------------------------- listing
\* collation order of the tokens that occur in names, prefixes and paths
TokenRank(c) ==
    CASE c = "$" -> 1 [] c = "/" -> 2 [] c = "^" -> 3 [] c = "a" -> 4
      [] c = "p" -> 5 [] OTHER -> 6

RECURSIVE LexLeq(_, _)
LexLeq(s, t) ==
    IF s = <<>> THEN TRUE
    ELSE IF t = <<>> THEN FALSE
    ELSE IF s[1] = t[1] THEN LexLeq(Tail(s), Tail(t))
    ELSE TokenRank(s[1]) < TokenRank(t[1])

\* ORDER BY of the three listing queries (ties fall back to creation order)
Before(x, y, order) ==
    CASE order = "created_at DESC" -> x >= y
      [] order = "name ASC" ->
            IF docs[x].name = docs[y].name THEN x <= y
            ELSE LexLeq(docs[x].name, docs[y].name)
      [] OTHER ->
            IF docs[x].path = docs[y].path THEN x <= y
            ELSE LexLeq(docs[x].path, docs[y].path)

RECURSIVE SortDocs(_, _)
SortDocs(S, order) ==
    IF S = {} THEN <<>>
    ELSE LET m == CHOOSE x \in S : \A y \in S : Before(x, y, order)
         IN  <<m>> \o SortDocs(S \ {m}, order)

\* LIMIT limit OFFSET offset
Window(seq, limit, offset) ==
    SubSeq(seq, offset + 1,
           IF Len(seq) < offset + limit THEN Len(seq) ELSE offset + limit)

\* col LIKE p || '%' (a NULL column matches nothing)
LikePrefix(col, p) == col # None /\ StartsWith(col, p)

RECURSIVE CountToken(_, _)
CountToken(s, c) ==
    IF s = <<>> THEN 0
    ELSE (IF s[1] = c THEN 1 ELSE 0) + CountToken(Tail(s), c)

\* col LIKE p || '%' || '/' || '%/%'
LikeDeeper(col, p) ==
    /\ StartsWith(col, p)
    /\ CountToken(SubSeq(col, Len(p) + 1, Len(col)), "/") >= 2

\* DocumentRepository.get_by_organization
RepoGetByOrganization(status, limit, offset) ==
    Window(SortDocs({d \in DOMAIN docs :
                        /\ docs[d].org = Org
                        /\ (status = None \/ docs[d].status = status[1])},
                    "created_at DESC"), limit, offset)

\* DocumentRepository.list_by_prefix
RepoListByPrefix(prefix, limit, offset) ==
    Window(SortDocs({d \in DOMAIN docs :
                        /\ docs[d].org = Org
                        /\ docs[d].prefix = prefix
                        /\ docs[d].status # "deleted"},
                    "name ASC"), limit, offset)

\* DocumentRepository.list_recursive
RepoListRecursive(prefix, max_depth, limit, offset) ==
    Window(SortDocs({d \in DOMAIN docs :
                        /\ docs[d].org = Org
                        /\ (LikePrefix(docs[d].prefix, prefix)
                               \/ LikePrefix(docs[d].path, prefix))
                        /\ (max_depth = None \/ docs[d].prefix = None
                               \/ ~LikeDeeper(docs[d].prefix, prefix))
                        /\ docs[d].status # "deleted"},
                    "path ASC"), limit, offset)

\* arguments of list_documents_paginated
ListArgs ==
    {q \in [prefix : {None, PrefixP, <<"/">>}, recursive : BOOLEAN,
            max_depth : {None, <<1>>}, status : {None, <<"active">>, <<"deleted">>},
            limit : {1, MaxDocs}, offset : {0, 1}] :
        /\ (q.max_depth # None => q.recursive /\ q.prefix # None)
        /\ (q.recursive => q.prefix # None)
        /\ (q.prefix # None => q.status = None)}

\* DocumentService.list_documents_paginated: the page of candidates, then the
\* READ filter
ListCandidates(q) ==
    IF q.prefix # None /\ q.recursive
    THEN RepoListRecursive(q.prefix, q.max_depth, q.limit, q.offset)
    ELSE IF q.prefix # None
    THEN RepoListByPrefix(q.prefix, q.limit, q.offset)
    ELSE RepoGetByOrganization(q.status, q.limit, q.offset)

\* the listing with the READ filter left out
ListDocumentsPaginatedUnfiltered(a, q) == [Fail("ok") EXCEPT !.out = ListCandidates(q)]

ListDocumentsPaginated(a, q) ==
    [Fail("ok") EXCEPT !.out =
        SelectSeq(ListCandidates(q),
                  LAMBDA d : RepoCheckPermission(acl, now, d, a, "READ"))]

\* DocumentRepository.search_by_name
RepoSearchByName(name_query, limit) ==
    Window(SortDocs({d \in DOMAIN docs :
                        /\ docs[d].org = Org
                        /\ ILikeContains(docs[d].name, name_query)
                        /\ docs[d].status = "active"},
                    "created_at DESC"), limit, 0)

\* arguments of search_documents_enhanced
SearchArgs ==
    [query : {<<"a">>, <<"^", "a">>, <<"a", "$">>}, prefix : {None, PrefixP},
     status : {None, <<"active">>}, limit : {1, MaxDocs}, offset : {0, 1}]

\* DocumentService.search_documents_enhanced: the rows found by name, the
\* prefix and status filters, the READ filter, then the page
SearchDocumentsEnhanced(a, q) ==
    IF Len(q.query) < 2 THEN Fail("Validation")
    ELSE LET filtered ==
                 SelectSeq(RepoSearchByName(q.query, q.limit),
                           LAMBDA d :
                               /\ (q.prefix # None =>
                                       /\ SearchRowPrefix(d) # None
                                       /\ StartsWith(SearchRowPrefix(d), q.prefix))
                               /\ (q.status # None => docs[d].status = q.status[1])
                               /\ RepoCheckPermission(acl, now, d, a, "READ"))
         IN  [Fail("ok") EXCEPT !.out = Window(filtered, q.limit, q.offset)]

\* AccessService.list_accessible_documents (permission None = "READ")
ListAccessibleDocuments(a, permission) ==
    IF permission # None /\ permission[1] \notin Perms THEN Fail("Validation")
    ELSE IF ~AgentExists(a) \/ Org \notin registered.orgs THEN Fail("NotFound")
    ELSE LET p == IF permission = None THEN "READ" ELSE permission[1]
         IN  [Fail("ok") EXCEPT !.out =
                 SelectSeq(RepoGetByOrganization(None, MaxDocs, 0),
                           LAMBDA d : RepoCheckPermission(acl, now, d, a, p))]

\* DocumentService.get_document_details
GetDocumentDetails(d, a, include_versions, include_permissions) ==
    IF ~DocVisible(docs, d) THEN Fail("NotFound")
    ELSE IF ~RepoCheckPermission(acl, now, d, a, "READ") THEN Fail("PermissionDenied")
    ELSE IF /\ include_permissions
            /\ ~\E r \in DOMAIN RepoAclByDocumentAndAgent(acl, d, a) :
                    r.permission = "ADMIN"
    THEN Fail("PermissionDenied")
    ELSE [Fail("ok") EXCEPT !.out =
            [versions |-> IF include_versions THEN VersionsOf(versions, d) ELSE None,
             permissions |-> IF include_permissions THEN RepoAclByDocument(acl, d)
                             ELSE EmptyBag]]


\* ---------------------------------------------------------- access service
\* AccessService.check_permission
CheckPermissionExactRow(d, a, p) ==
    IF p \notin Perms THEN Fail("Validation")
    ELSE IF ~DocVisible(docs, d) THEN Fail("NotFound")
    ELSE [Fail("ok") EXCEPT !.out =
            \E r \in AclRows(acl) :
                /\ r.doc = d /\ r.agent = a /\ r.permission = p
                /\ ~Expired(r.expires_at, now)]

CheckPermission(d, a, p) ==
    IF p \notin Perms THEN Fail("Validation")
    ELSE IF ~DocVisible(docs, d) THEN Fail("NotFound")
    ELSE [Fail("ok") EXCEPT !.out = RepoCheckPermission(acl, now, d, a, p)]

\* AccessService.check_permission when the database may fail under it:
\* document_repo.get_by_id turns any failure of its query into a
\* DatabaseError, and check_permission has no handler for it
CheckPermissionDb(d, a, p, db) ==
    IF p \notin Perms THEN Fail("Validation")
    ELSE IF db = "error" THEN Fail("DatabaseError")
    ELSE CheckPermission(d, a, p)

\* one entry of a permissions list; "-" stands for a key the dict lacks
Absent == "-"
Grant(a, p, e, action) ==
    [agent |-> a, permission |-> p, expires_at |-> e, action |-> action]

\* the loop body of set_permissions_bulk, entry by entry
RECURSIVE ApplyGrantsNoDelete(_, _, _, _)
ApplyGrantsNoDelete(A, d, grants, by) ==
    IF grants = <<>> THEN [acl |-> A, result |-> "ok"]
    ELSE LET g == Head(grants)
         IN  IF g.agent = Absent THEN [acl |-> A, result |-> "Validation"]
             ELSE IF ~AgentExists(g.agent) THEN [acl |-> A, result |-> "NotFound"]
             ELSE IF g.action = "remove"
             THEN ApplyGrantsNoDelete(
                      RepoAclDelete(A, d, g.agent,
                                    IF g.permission = Absent THEN "READ" ELSE g.permission),
                      d, Tail(grants), by)
             ELSE IF g.permission \notin Perms THEN [acl |-> A, result |-> "Validation"]
             ELSE ApplyGrantsNoDelete(
                      RepoAclCreate(A, AclRow(d, g.agent, g.permission, g.expires_at, by)),
                      d, Tail(grants), by)

RECURSIVE ApplyGrants(_, _, _, _)
ApplyGrants(A, d, grants, by) ==
    IF grants = <<>> THEN [acl |-> A, result |-> "ok"]
    ELSE LET g == Head(grants)
         IN  IF g.agent = Absent THEN [acl |-> A, result |-> "Validation"]
             ELSE IF ~AgentExists(g.agent) THEN [acl |-> A, result |-> "NotFound"]
             ELSE IF g.action = "remove"
             THEN ApplyGrants(
                      RepoAclDelete(A, d, g.agent,
                                    IF g.permission = Absent THEN "READ" ELSE g.permission),
                      d, Tail(grants), by)
             ELSE IF g.permission \notin Perms THEN [acl |-> A, result |-> "Validation"]
             ELSE ApplyGrants(
                      RepoAclCreate(RepoAclDelete(A, d, g.agent, g.permission),
                                    AclRow(d, g.agent, g.permission, g.expires_at, by)),
                      d, Tail(grants), by)

\* AccessService.set_permissions_bulk
SetPermissionsBulkNoRollback(A, d, grants, by) ==
    IF ~DocExists(docs, d)
    THEN Effect(docs, versions, A, storage, nextDocId, "NotFound", None)
    ELSE IF ~RepoCheckPermission(A, now, d, by, "SHARE")
    THEN Effect(docs, versions, A, storage, nextDocId, "PermissionDenied", None)
    ELSE LET r == ApplyGrants(A, d, grants, by)
         IN  Effect(docs, versions, r.acl, storage, nextDocId, r.result,
                    IF r.result = "ok" THEN d ELSE None)

SetPermissionsBulkUnchecked(A, d, grants, by) ==
    IF ~DocExists(docs, d)
    THEN Effect(docs, versions, A, storage, nextDocId, "NotFound", None)
    ELSE LET r == ApplyGrants(A, d, grants, by)
         IN  IF r.result # "ok"
             THEN Effect(docs, versions, A, storage, nextDocId, r.result, None)
             ELSE Effect(docs, versions, r.acl, storage, nextDocId, "ok", d)

SetPermissionsBulkOn(A, d, grants, by) ==
    IF ~DocExists(docs, d)
    THEN Effect(docs, versions, A, storage, nextDocId, "NotFound", None)
    ELSE IF ~RepoCheckPermission(A, now, d, by, "SHARE")
    THEN Effect(docs, versions, A, storage, nextDocId, "PermissionDenied", None)
    ELSE LET r == ApplyGrants(A, d, grants, by)
         IN  IF r.result # "ok"
             THEN Effect(docs, versions, A, storage, nextDocId, r.result, None)
             ELSE Effect(docs, versions, r.acl, storage, nextDocId, "ok", d)

SetPermissionsBulk(d, grants, by) == SetPermissionsBulkOn(acl, d, grants, by)

\* AccessService.get_permissions_detailed (what DocVaultSDK.get_permissions calls)
GetPermissionsDetailed(d, filter) ==
    IF ~DocExists(docs, d) THEN Fail("NotFound")
    ELSE [Fail("ok") EXCEPT !.out =
            IF filter = Absent THEN RepoAclByDocument(acl, d)
            ELSE RepoAclByDocumentAndAgent(acl, d, filter)]

\* DocVaultSDK.get_permissions(document_id, agent_id): the second argument
\* filters the rows; who is calling is not an argument
SdkGetPermissions(caller, d, filter) == GetPermissionsDetailed(d, filter)

\* AccessService.get_document_permissions / AccessService.get_permissions
GetDocumentPermissions(d, a) ==
    IF ~DocVisible(docs, d) THEN Fail("NotFound")
    ELSE IF ~RepoCheckPermission(acl, now, d, a, "ADMIN") THEN Fail("PermissionDenied")
    ELSE [Fail("ok") EXCEPT !.out = RepoAclByDocument(acl, d)]

\* AccessService.check_permissions_multi
CheckPermissionsMulti(d, a, ps) ==
    IF ~AgentExists(a) THEN Fail("NotFound")
    ELSE IF ~DocExists(docs, d) THEN Fail("NotFound")
    ELSE [Fail("ok") EXCEPT !.out =
            [p \in ps |-> RepoCheckPermission(acl, now, d, a, p)]]

\* AccessService.transfer_ownership
TransferOwnershipRemovalOnly(d, from, to, by) ==
    IF ~DocExists(docs, d) THEN Fail("NotFound")
    ELSE IF ~(from = by \/ RepoCheckPermission(acl, now, d, by, "ADMIN"))
    THEN Fail("PermissionDenied")
    \* the new row references agents that are gone
    ELSE IF ~AgentExists(to) \/ ~AgentExists(by) THEN Fail("DatabaseError")
    ELSE Effect(docs, versions, RepoAclDelete(acl, d, from, "ADMIN"),
                storage, nextDocId, "ok", d)

TransferOwnership(d, from, to, by) ==
    IF ~DocExists(docs, d) THEN Fail("NotFound")
    ELSE IF ~(from = by \/ RepoCheckPermission(acl, now, d, by, "ADMIN"))
    THEN Fail("PermissionDenied")
    \* the new row references agents that are gone
    ELSE IF ~AgentExists(to) \/ ~AgentExists(by) THEN Fail("DatabaseError")
    ELSE Effect(docs, versions,
                RepoAclCreate(RepoAclDelete(acl, d, from, "ADMIN"),
                              AclRow(d, to, "ADMIN", None, by)),
                storage, nextDocId, "ok", d)

\* ----------------------------------------------------------- version store
MaxOf(S) == CHOOSE x \in S : \A y \in S : y <= x

\* VersionService.restore_version: read the stored bytes of version n and
\* create a new version from them with change_type "restore"
RestoreVersion(d, n, a, env) ==
    IF ~DocVisible(docs, d) THEN Fail("NotFound")
    ELSE IF ~RepoCheckPermission(acl, now, d, a, "WRITE") THEN Fail("PermissionDenied")
    ELSE LET rows == RepoGetVersion(versions, d, n)
         IN  IF rows = <<>> THEN Fail("NotFound")
             ELSE IF rows[1].storage_path \notin DOMAIN storage THEN Fail("StorageError")
             ELSE CreateVersionTxn(d, MaxOf(VersionNumbers(versions, d)) + 1, a,
                                   storage[rows[1].storage_path], rows[1].filename,
                                   "restore", env)


\* ----------------------------------------------------------------- inputs
PutEnvs == {e \in Envs : e.del /\ e.vupd = "nomatch" /\ e.dbw = "ok"}

UnknownAgent == "zz"
Creators == {"a1"}

\* the permission lists check_permissions_multi is asked about
PermLists == {{}, {"READ"}, {"READ", "WRITE"}, Perms}

\* the entries permission lists are built from
GrantEntries ==
    {Grant("a2", p, None, "grant") : p \in Perms}
        \cup {Grant("a2", p, <<0>>, "grant") : p \in {"WRITE", "ADMIN"}}
        \cup {Grant("a1", "ADMIN", <<0>>, "grant"), Grant("a1", "ADMIN", None, "remove"),
              Grant(UnknownAgent, "READ", None, "grant")}

GrantLists ==
    {<<g>> : g \in GrantEntries}
        \cup {<<g, g>> : g \in {Grant("a2", "READ", None, "grant")}}
        \cup {<<Grant("a2", "WRITE", None, "grant"), g>> :
                 g \in {Grant(UnknownAgent, "READ", None, "grant")}}
        \cup {<<Grant("a2", "READ", None, "grant"), g>> :
                 g \in {Grant("a2", "ADMIN", <<0>>, "grant")}}

\* ---------------------------------------------------------------- actions
Apply(e, op) ==
    /\ docs' = e.docs
    /\ versions' = e.versions
    /\ acl' = e.acl
    /\ storage' = e.storage
    /\ nextDocId' = e.nextDocId
    /\ last' = Outcome(op, e.result)
    /\ calls' = calls + 1

Commit(e, op) == Apply(e, op) /\ UNCHANGED <<now, inflight, registered, sdk>>

\* the _check_agent_exists call that opens a method called by agent a
ByAgent(a, e) == IF AgentExists(a) THEN e ELSE Fail("NotFound")

\* how a call that only reads can end
Returns(e) ==
    e.result \in {"ok", "NotFound", "PermissionDenied", "Validation", "StorageError",
                  "DatabaseError"}

CanCall == calls < MaxCalls
CanCreate == nextDocId <= MaxDocs
CanVersion(d) == DocExists(docs, d) => docs[d].current_version < MaxVersion
AclRoom == BagCardinality(acl) < MaxAclRows

\* DocVaultSDK.upload
Upload ==
    /\ CanCall
    /\ \E name \in Names, prefix \in Prefixes, a \in Agents, cv \in BOOLEAN, env \in Envs :
        /\ LET existing == FindExistingDocument(name, prefix)
           IN  IF existing = {} THEN CanCreate /\ AclRoom
               ELSE \A d \in existing : CanVersion(d)
        /\ Commit(ByAgent(a, UploadEnhanced(name, prefix, a, ContentNew, None, cv, env)),
                  "upload")

UploadLegacy ==
    /\ CanCall
    /\ \E a \in Creators, env \in PutEnvs :
        /\ CanCreate /\ AclRoom
        /\ Commit(ByAgent(a, UploadDocument(NameA, a, ContentNew, FileTxt, env)),
                  "upload_document")

UploadToPrefix ==
    /\ CanCall
    /\ \E prefix \in {PrefixP, <<"p">>}, a \in Creators, env \in PutEnvs :
        /\ CanCreate
        /\ Commit(ByAgent(a, UploadDocumentToPrefix(NameA, prefix, a, ContentNew, env)),
                  "upload_document_to_prefix")

Replace ==
    /\ CanCall
    /\ \E d \in DocIds, a \in Agents, env \in PutEnvs :
        /\ CanVersion(d)
        /\ Commit(ByAgent(a, ReplaceDocument(d, a, ContentNext, FileTxt, env)),
                  "replace_document")

ReplaceContent ==
    /\ CanCall
    /\ \E d \in DocIds, a \in Agents, cv \in BOOLEAN, env \in Envs :
        /\ CanVersion(d)
        /\ Commit(ByAgent(a, ReplaceDocumentContent(d, a, ContentNext, None, cv, env)),
                  "replace_document_content")

Restore ==
    /\ CanCall
    /\ \E d \in DocIds, n \in 1..MaxVersion, a \in Agents, env \in PutEnvs :
        /\ CanVersion(d)
        /\ Commit(ByAgent(a, RestoreVersion(d, n, a, env)), "restore_version")

Download ==
    \E d \in DocIds, a \in Agents, ver \in VersionArgs :
        /\ Returns(ByAgent(a, DownloadDocument(d, a, ver)))
        /\ UNCHANGED vars

UpdateMeta ==
    /\ CanCall
    /\ \E d \in DocIds, a \in Agents, name \in {None, NameCaretA} :
        Commit(ByAgent(a, UpdateMetadata(d, a, name)), "update_metadata")

Delete ==
    /\ CanCall
    /\ \E d \in DocIds, a \in Agents, hard \in BOOLEAN :
        \E failed \in IF hard /\ DocExists(docs, d) THEN {{}, HardDeletePaths(d)} ELSE {{}} :
            Commit(ByAgent(a, DeleteDocument(d, a, hard, failed)), "delete")

ListDocs ==
    \E a \in Agents, q \in ListArgs :
        /\ Returns(ByAgent(a, ListDocumentsPaginated(a, q)))
        /\ UNCHANGED vars

Search ==
    \E a \in Agents, q \in SearchArgs :
        /\ Returns(ByAgent(a, SearchDocumentsEnhanced(a, q)))
        /\ UNCHANGED vars

ListAccessible ==
    \E a \in Agents \cup {UnknownAgent},
       permission \in {None, <<"READ">>, <<"WRITE">>, <<"OWNER">>} :
        /\ Returns(ListAccessibleDocuments(a, permission))
        /\ UNCHANGED vars

Details ==
    \E d \in DocIds, a \in Agents, iv \in BOOLEAN, ip \in BOOLEAN :
        /\ Returns(ByAgent(a, GetDocumentDetails(d, a, iv, ip)))
        /\ UNCHANGED vars

CheckPerm ==
    \E d \in DocIds, a \in Agents, p \in Perms \cup {"OWNER"}, db \in {"ok", "error"} :
        /\ Returns(ByAgent(a, CheckPermissionDb(d, a, p, db)))
        /\ UNCHANGED vars

SetPermissions ==
    /\ CanCall
    /\ \E d \in DocIds, grants \in GrantLists, by \in Agents :
        /\ LET e == SetPermissionsBulk(d, grants, by)
           IN  /\ BagCardinality(e.acl) <= MaxAclRows
               /\ Commit(e, "set_permissions")

GetPermissions ==
    \E caller \in Agents, d \in DocIds, filter \in Agents \cup {Absent} :
        /\ Returns(SdkGetPermissions(caller, d, filter))
        /\ UNCHANGED vars

CheckPermsMulti ==
    \E d \in DocIds, a \in Agents \cup {UnknownAgent}, ps \in PermLists :
        /\ Returns(CheckPermissionsMulti(d, a, ps))
        /\ UNCHANGED vars

GetDocPermissions ==
    \E d \in DocIds, a \in Agents :
        /\ Returns(ByAgent(a, GetDocumentPermissions(d, a)))
        /\ UNCHANGED vars

Transfer ==
    /\ CanCall
    /\ \E d \in DocIds, from \in Agents, to \in Agents, by \in Agents :
        /\ LET e == TransferOwnership(d, from, to, by)
           IN  /\ BagCardinality(e.acl) <= MaxAclRows
               /\ Commit(e, "transfer_ownership")

\* the clock the expiry comparison reads
Tick ==
    /\ CanCall
    /\ now < MaxTime
    /\ now' = now + 1
    /\ calls' = calls + 1
    /\ last' = Outcome("tick", "ok")
    /\ UNCHANGED <<docs, versions, acl, storage, nextDocId, inflight, registered, sdk>>

Next ==
    \/ Upload
    \/ UploadLegacy
    \/ UploadToPrefix
    \/ Replace
    \/ ReplaceContent
    \/ Restore
    \/ Download
    \/ UpdateMeta
    \/ Delete
    \/ ListDocs
    \/ Search
    \/ ListAccessible
    \/ Details
    \/ CheckPerm
    \/ SetPermissions
    \/ GetPermissions
    \/ CheckPermsMulti
    \/ GetDocPermissions
    \/ Transfer
    \/ Tick

Spec == Init /\ [][Next]_vars


\* ------------------------------------------------- interleaved replacements
\* replace_document_content and replace_document up to the point where
\* new_version_number = document.current_version + 1 is computed: the
\* document is read and WRITE is checked before the transaction is opened
BeginCreateVersion(p) ==
    /\ CanCall
    /\ inflight[p].pc = "idle"
    /\ \E d \in DocIds, a \in Agents :
        /\ AgentExists(a)
        /\ DocVisible(docs, d)
        /\ RepoCheckPermission(acl, now, d, a, "WRITE")
        /\ docs[d].current_version < MaxVersion
        /\ inflight' = [inflight EXCEPT ![p] =
                           [pc |-> "allocated", doc |-> d, agent |-> a,
                            new_version_number |-> docs[d].current_version + 1,
                            filename |-> docs[d].filename]]
    /\ calls' = calls + 1
    /\ UNCHANGED <<docs, versions, acl, storage, now, nextDocId, last, registered, sdk>>

\* the transaction of the same call: object upload, document update, version
\* insert.  unique = whether the store rejects a second row for the same
\* (document, version_number)
CommitCreateVersionEffect(t, env, unique) ==
    LET sp == GenerateStoragePath(t.doc, t.new_version_number, t.filename)
    IN  IF ~env.put THEN Rollback(storage, "StorageError")
        ELSE IF ~DocExists(docs, t.doc)
        THEN Rollback(StoragePut(storage, sp, ContentNext), "DatabaseError")
        ELSE IF unique /\ RepoGetVersion(versions, t.doc, t.new_version_number) # <<>>
        THEN Rollback(StoragePut(storage, sp, ContentNext), "DatabaseError")
        ELSE CreateVersionTxn(t.doc, t.new_version_number, t.agent, ContentNext,
                              t.filename, "update", env)

CommitCreateVersion(p) ==
    /\ inflight[p].pc = "allocated"
    /\ \E env \in PutEnvs, unique \in BOOLEAN :
        /\ docs' = CommitCreateVersionEffect(inflight[p], env, unique).docs
        /\ versions' = CommitCreateVersionEffect(inflight[p], env, unique).versions
        /\ storage' = CommitCreateVersionEffect(inflight[p], env, unique).storage
        /\ last' = Outcome("replace_document_content",
                           CommitCreateVersionEffect(inflight[p], env, unique).result)
    /\ inflight' = [inflight EXCEPT ![p] = Idle]
    /\ UNCHANGED <<acl, now, nextDocId, calls, registered, sdk>>

NextConcurrent ==
    \/ Next
    \/ \E p \in Procs : BeginCreateVersion(p)
    \/ \E p \in Procs : CommitCreateVersion(p)

SpecConcurrent == Init /\ [][NextConcurrent]_vars


\* ------------------------------------------- agents and organizations
\* what a removal leaves behind: the tables, the registry of organizations
\* and agents, and the kind of error raised
AdminEffect(D, V, A, R, result) ==
    [docs |-> D, versions |-> V, acl |-> A, storage |-> storage,
     nextDocId |-> nextDocId, result |-> result, out |-> None, registered |-> R]

AdminFail(result) == AdminEffect(docs, versions, acl, registered, result)

DocsCreatedBy(a) == {d \in DOMAIN docs : docs[d].created_by = a}
DocsOfOrganization(o) == {d \in DOMAIN docs : docs[d].org = o}
AclRowsOfAgent(a) == {r \in AclRows(acl) : r.agent = a}

\* DELETE with the foreign keys cascading: the documents in gone go with
\* their versions and ACL rows, the agents in leaving with their ACL rows
Cascade(gone, leaving, R) ==
    LET keep == {r \in DOMAIN acl : r.doc \notin gone /\ r.agent \notin leaving}
    IN  AdminEffect([d \in DOMAIN docs \ gone |-> docs[d]],
                    SelectSeq(versions, LAMBDA r : r.doc \notin gone),
                    [r \in keep |-> acl[r]], R, "ok")

\* AgentRepository.delete
RepoAgentDelete(a, force) ==
    IF ~force /\ DocsCreatedBy(a) # {} THEN AdminFail("DatabaseError")
    ELSE IF ~force /\ AclRowsOfAgent(a) # {} THEN AdminFail("DatabaseError")
    ELSE Cascade(DocsCreatedBy(a), {a}, [registered EXCEPT !.agents = @ \ {a}])

\* the removal with every check left out
RemoveAgentUnchecked(a, force, resolves) == RepoAgentDelete(a, TRUE)

\* AgentService.remove_agent.  resolves = whether the call
\* self.document_repo.get_by_creator finds a method: DocumentRepository
\* defines get_by_created_by only, and an AttributeError is re-raised as
\* DatabaseError by the handler that closes the method
RemoveAgent(a, force, resolves) ==
    IF ~force /\ ~resolves THEN AdminFail("DatabaseError")
    ELSE IF ~force /\ DocsCreatedBy(a) # {} THEN AdminFail("PermissionDenied")
    ELSE IF ~force /\ AclRowsOfAgent(a) # {} THEN AdminFail("PermissionDenied")
    ELSE RepoAgentDelete(a, force)

\* OrganizationRepository.delete
RepoOrganizationDelete(o, force) ==
    IF ~force /\ o \in registered.orgs /\ registered.agents # {}
    THEN AdminFail("DatabaseError")
    ELSE IF ~force /\ DocsOfOrganization(o) # {} THEN AdminFail("DatabaseError")
    ELSE IF o \notin registered.orgs THEN AdminFail("ok")
    ELSE Cascade(DocsOfOrganization(o), registered.agents,
                 [orgs |-> registered.orgs \ {o}, agents |-> {}])

\* the deletion with every check left out
DeleteOrganizationUnchecked(o, force) == RepoOrganizationDelete(o, TRUE)

\* OrganizationService.delete_organization (every agent belongs to Org)
DeleteOrganization(o, force) ==
    IF ~force /\ o \in registered.orgs /\ registered.agents # {}
    THEN AdminFail("PermissionDenied")
    ELSE IF ~force /\ DocsOfOrganization(o) # {} THEN AdminFail("PermissionDenied")
    ELSE RepoOrganizationDelete(o, force)

AdminCommit(e, op) ==
    /\ Apply(e, op)
    /\ registered' = e.registered
    /\ UNCHANGED <<now, inflight, sdk>>

Remove ==
    /\ CanCall
    /\ \E a \in Agents, force \in BOOLEAN, resolves \in BOOLEAN :
        AdminCommit(RemoveAgent(a, force, resolves),
                    IF force THEN "remove_agent(force)" ELSE "remove_agent")

DeleteOrg ==
    /\ CanCall
    /\ \E force \in BOOLEAN :
        AdminCommit(DeleteOrganization(Org, force),
                    IF force THEN "delete_organization(force)"
                    ELSE "delete_organization")

NextAdmin ==
    \/ Next
    \/ Remove
    \/ DeleteOrg

SpecAdmin == Init /\ [][NextAdmin]_vars

\* ----------------------------------------------------------- SDK session
\* the public operations of DocVaultSDK whose services are modelled, and the
\* handle each one tests before it delegates
SdkHandle ==
    [upload |-> "document_service", download |-> "document_service",
     update_metadata |-> "document_service", delete |-> "document_service",
     list_docs |-> "document_service", search |-> "document_service",
     get_document_details |-> "document_service",
     transfer_ownership |-> "access_service",
     get_permissions |-> "access_service",
     set_permissions |-> "access_service",
     restore_version |-> "version_service",
     delete_organization |-> "organization_service",
     remove_agent |-> "agent_service"]

SdkOps == DOMAIN SdkHandle

\* `if not self._x_service: raise RuntimeError("SDK not initialized...")`;
\* reading an attribute that was never assigned raises AttributeError
SdkGuard(s, op) ==
    LET h == s[SdkHandle[op]]
    IN  IF h = "unset" THEN "AttributeError"
        ELSE IF h = "None" THEN "RuntimeError"
        ELSE "pass"

SessionOpen == \A op \in SdkOps : SdkGuard(sdk, op) = "pass"

Enter ==
    /\ CanCall
    /\ \E ok \in BOOLEAN :
        /\ sdk' = AEnter(sdk, ok)
        /\ last' = Outcome("__aenter__",
                           IF sdk.initialized \/ ok THEN "ok" ELSE "DatabaseError")
    /\ calls' = calls + 1
    /\ UNCHANGED <<docs, versions, acl, storage, now, nextDocId, inflight, registered>>

Exit ==
    /\ CanCall
    /\ sdk' = AExit(sdk)
    /\ last' = Outcome("__aexit__", "ok")
    /\ calls' = calls + 1
    /\ UNCHANGED <<docs, versions, acl, storage, now, nextDocId, inflight, registered>>

\* a public operation called while its handle is missing: the guard raises
\* before anything is delegated
CallOutsideSession ==
    /\ CanCall
    /\ \E op \in SdkOps :
        /\ SdkGuard(sdk, op) # "pass"
        /\ last' = Outcome(op, SdkGuard(sdk, op))
    /\ calls' = calls + 1
    /\ UNCHANGED <<docs, versions, acl, storage, now, nextDocId, inflight, registered,
                   sdk>>

\* the services exist only between __aenter__ and __aexit__
InSession == SessionOpen /\ NextAdmin

NextSession ==
    \/ Enter
    \/ Exit
    \/ CallOutsideSession
    \/ InSession

\* a freshly constructed SDK over the same database
InitSession == InitData /\ sdk = Constructed

SpecSession == InitSession /\ [][NextSession]_vars


\* -------------------------------------------------------------- properties
\* agent a has an unexpired row granting exactly p on document d
HoldsGrant(d, a, p) ==
    \E r \in AclRows(acl) :
        /\ r.doc = d /\ r.agent = a /\ r.permission = p
        /\ ~Expired(r.expires_at, now)

\* a holds p on d, or ADMIN
Authorized(d, a, p) == HoldsGrant(d, a, p) \/ HoldsGrant(d, a, "ADMIN")

\* the call behind effect e wrote no row and no object
Untouched(e) ==
    /\ e.docs = docs
    /\ e.versions = versions
    /\ e.acl = acl
    /\ e.storage = storage

\* the number of rows table A holds for (d, a, p)
CopiesOf(A, d, a, p) ==
    LET rows == {r \in DOMAIN A : r.doc = d /\ r.agent = a /\ r.permission = p}
    IN  BagCardinality([r \in rows |-> A[r]])

Range(seq) == {seq[i] : i \in 1..Len(seq)}

\* a call on document d by agent a that needs level p: it succeeds only for
\* a holder of p or ADMIN, and on a visible document anyone else is refused
\* with PermissionDenied and nothing is written
Gated(e, d, a, p) ==
    /\ e.result = "ok" => Authorized(d, a, p)
    /\ (DocVisible(docs, d) /\ ~Authorized(d, a, p))
           => (e.result = "PermissionDenied" /\ Untouched(e))

DistinctAllocations ==
    \A p \in Procs, q \in Procs :
        (/\ p # q
         /\ inflight[p].pc = "allocated"
         /\ inflight[q].pc = "allocated"
         /\ inflight[p].doc = inflight[q].doc)
            => inflight[p].new_version_number # inflight[q].new_version_number

EveryDocumentOwnedAndVersioned ==
    \A d \in DOMAIN docs :
        /\ \E r \in AclRows(acl) : r.doc = d /\ r.permission = "ADMIN"
        /\ VersionsOf(versions, d) # <<>>

\* C5: once document D is soft-deleted, download of D fails for every
\* agent, and listDocuments without an explicit request for deleted
\* documents never returns D, whatever the agent holds on D.
SoftDeletedInvisible ==
    \A d \in DOMAIN docs :
        docs[d].status = "deleted" =>
            /\ \A a \in Agents, ver \in VersionArgs :
                   DownloadDocument(d, a, ver).result # "ok"
            /\ \A a \in Agents, q \in ListArgs :
                   q.status = None => d \notin Range(ListDocumentsPaginated(a, q).out)

\* C6: getPermissions returns ACL rows only to a caller who holds ADMIN on
\* the document; any other caller gets PermissionDenied.
PermissionsOnlyForAdmin ==
    \A caller \in Agents, d \in DOMAIN docs, filter \in Agents \cup {Absent} :
        ~Authorized(d, caller, "ADMIN")
            => SdkGetPermissions(caller, d, filter).result = "PermissionDenied"

\* C7: download, updateMetadata, delete and content replacement (an upload
\* that lands on an existing document included) succeed only for a caller
\* holding READ, WRITE, DELETE and WRITE respectively, or ADMIN; any other
\* caller gets PermissionDenied and no row and no stored object changes.
PermissionGate ==
    \A d \in DocIds, a \in Agents :
        /\ \A ver \in VersionArgs : Gated(DownloadDocument(d, a, ver), d, a, "READ")
        /\ \A name \in Names \cup {None} :
               Gated(UpdateMetadata(d, a, name), d, a, "WRITE")
        /\ \A hard \in BOOLEAN : Gated(DeleteDocument(d, a, hard, {}), d, a, "DELETE")
        /\ \A cv \in BOOLEAN, env \in Envs :
               Gated(ReplaceDocumentContent(d, a, ContentNext, None, cv, env),
                     d, a, "WRITE")
        /\ \A env \in PutEnvs :
               Gated(ReplaceDocument(d, a, ContentNext, FileTxt, env), d, a, "WRITE")
        /\ \A name \in Names, prefix \in Prefixes, cv \in BOOLEAN, env \in Envs :
               FindExistingDocument(name, prefix) = {d}
                   => Gated(UploadEnhanced(name, prefix, a, ContentNew, None, cv, env),
                            d, a, "WRITE")

\* an upload that landed on an existing document has been refused
PermissionGateReached == last = Outcome("upload", "PermissionDenied")

\* C8: a grant whose expires_at is in the past is treated as absent by every
\* permission check: checkPermission answers from unexpired rows alone, and
\* without an unexpired ADMIN grant nobody is shown a document's permissions.
ExpiredGrantIsAbsent ==
    \A d \in DOMAIN docs, a \in Agents :
        DocVisible(docs, d) =>
            /\ \A p \in Perms :
                   /\ CheckPermission(d, a, p).result = "ok"
                   /\ CheckPermission(d, a, p).out = Authorized(d, a, p)
            /\ ~Authorized(d, a, "ADMIN")
                   => \A iv \in BOOLEAN :
                          GetDocumentDetails(d, a, iv, TRUE).result # "ok"

\* C9: for every (document, agent) pair with an unexpired ADMIN grant,
\* checkPermission is true for READ, WRITE, DELETE and SHARE, whether or not
\* a row for that level exists.
AdminImpliesAll ==
    \A d \in DOMAIN docs, a \in Agents, p \in Perms \ {"ADMIN"} :
        (DocVisible(docs, d) /\ HoldsGrant(d, a, "ADMIN"))
            => /\ CheckPermission(d, a, p).result = "ok"
               /\ CheckPermission(d, a, p).out = TRUE

\* an agent whose only row on a document is ADMIN is told it may SHARE
AdminImpliesAllReached ==
    \E d \in DOMAIN docs, a \in Agents :
        /\ DocVisible(docs, d)
        /\ HoldsGrant(d, a, "ADMIN")
        /\ \A p \in Perms \ {"ADMIN"} : CopiesOf(acl, d, a, p) = 0
        /\ CheckPermission(d, a, "SHARE").out = TRUE

\* C10: setPermissions called twice with the same list leaves the rows that
\* one call leaves, and after it no (document, agent, permission) tuple the
\* list names has more than one row.
SetPermissionsIdempotent ==
    \A d \in DocIds, grants \in GrantLists, by \in Agents :
        LET once == SetPermissionsBulkOn(acl, d, grants, by)
            twice == SetPermissionsBulkOn(once.acl, d, grants, by)
        IN  once.result = "ok" =>
                /\ twice.acl = once.acl
                /\ \A i \in 1..Len(grants) :
                       CopiesOf(once.acl, d, grants[i].agent, grants[i].permission) <= 1

\* set_permissions has just written a list that names the same tuple twice,
\* and writing the list again is accepted
SetPermissionsIdempotentReached ==
    /\ last = Outcome("set_permissions", "ok")
    /\ \E d \in DocIds, grants \in GrantLists, by \in Agents :
        /\ Len(grants) > 1
        /\ grants[1] = grants[2]
        /\ CopiesOf(acl, d, grants[1].agent, grants[1].permission) = 1
        /\ SetPermissionsBulkOn(acl, d, grants, by).result = "ok"

\* the lists a batch can be: the ones calls are made with, and lists whose
\* second entry lacks agent_id or names a level that does not exist
BatchLists ==
    GrantLists
        \cup {<<Grant("a2", "WRITE", None, "grant"), g>> :
                 g \in {Grant(Absent, "READ", None, "grant"),
                        Grant("a2", "OWNER", None, "grant"),
                        Grant("a2", Absent, None, "grant")}}
        \cup {<<Grant("a1", "ADMIN", None, "remove"), g>> :
                 g \in {Grant(UnknownAgent, "READ", None, "grant")}}

SetPermissionsNeedsShare ==
    \A d \in DOMAIN docs, grants \in GrantLists, by \in Agents :
        ~Authorized(d, by, "SHARE")
            => LET e == SetPermissionsBulk(d, grants, by)
               IN  e.result = "PermissionDenied" /\ Untouched(e)

\* an agent holding WRITE but neither SHARE nor ADMIN has been refused
SetPermissionsNeedsShareReached ==
    /\ last = Outcome("set_permissions", "PermissionDenied")
    /\ \E d \in DOMAIN docs, by \in Agents :
        /\ HoldsGrant(d, by, "WRITE")
        /\ ~Authorized(d, by, "SHARE")

\* C13: transferOwnership takes effect only when the authorizing agent is the
\* document's owner or holds ADMIN on it: anyone else gets PermissionDenied
\* and the ACL stays as it was, whoever is named as the agent transferred from.
TransferNeedsOwnerOrAdmin ==
    \A d \in DOMAIN docs, from \in Agents, to \in Agents, by \in Agents :
        (~HoldsGrant(d, by, "ADMIN") /\ docs[d].created_by # by)
            => LET e == TransferOwnership(d, from, to, by)
               IN  e.result = "PermissionDenied" /\ Untouched(e)

HistoryOnlyGrows ==
    [][\A d \in DOMAIN docs :
           IF d \in DOMAIN docs'
           THEN /\ docs'[d].current_version >= docs[d].current_version
                /\ VersionNumbers(versions, d) \subseteq VersionNumbers(versions', d)
                /\ Len(VersionsOf(versions', d)) >= Len(VersionsOf(versions, d))
           ELSE last'.op = "delete"]_vars

\* a document with two versions has gone through an update of its metadata
\* or a soft delete and still has both
HistoryOnlyGrowsReached ==
    /\ last.op \in {"update_metadata", "delete"}
    /\ last.result = "ok"
    /\ \E d \in DOMAIN docs :
        /\ docs[d].current_version = 2
        /\ VersionNumbers(versions, d) = {1, 2}

\* C17: an upload by a holder of WRITE with the name, organization and prefix
\* of an existing document that is not deleted, and createVersion = true,
\* creates no second document: that document gets current_version + 1 and
\* exactly one version row is added.
UploadSameNameAddsVersion ==
    \A d \in DOMAIN docs, a \in Agents, env \in PutEnvs :
        (DocVisible(docs, d) /\ docs[d].org = Org /\ Authorized(d, a, "WRITE"))
            => LET e == UploadEnhanced(docs[d].name, docs[d].prefix, a, ContentNew,
                                       None, TRUE, env)
               IN  e.result = "ok" =>
                       /\ DOMAIN e.docs = DOMAIN docs
                       /\ e.docs[d].current_version = docs[d].current_version + 1
                       /\ Len(e.versions) = Len(versions) + 1

\* C18: each document's storage_path, filename, file_size and mime_type are
\* those of its version row numbered current_version, after version creation
\* and after a replacement in place alike.
DocumentMirrorsCurrentVersion ==
    \A d \in DOMAIN docs :
        \E i \in 1..Len(versions) :
            /\ versions[i].doc = d
            /\ versions[i].version_number = docs[d].current_version
            /\ versions[i].storage_path = docs[d].storage_path
            /\ versions[i].filename = docs[d].filename
            /\ versions[i].file_size = docs[d].file_size
            /\ versions[i].mime_type = docs[d].mime_type

\* C19: a replacement with createVersion = false adds no version row and
\* leaves current_version as it was; a step changes a document's
\* current_version only by creating a version (upload onto the document,
\* replacement, restore), which adds one row and one to the number.
InPlaceKeepsVersion ==
    /\ [](\A d \in DocIds, a \in Agents, env \in Envs :
             LET e == ReplaceDocumentContent(d, a, ContentNext, None, FALSE, env)
             IN  /\ e.versions = versions
                 /\ DOMAIN e.docs = DOMAIN docs
                 /\ \A x \in DOMAIN docs :
                        e.docs[x].current_version = docs[x].current_version)
    /\ [][\A d \in DOMAIN docs \cap DOMAIN docs' :
              docs'[d].current_version # docs[d].current_version
                  => /\ last'.op \in {"upload", "replace_document",
                                      "replace_document_content", "restore_version"}
                     /\ last'.result = "ok"
                     /\ docs'[d].current_version = docs[d].current_version + 1
                     /\ Len(VersionsOf(versions', d))
                            = Len(VersionsOf(versions, d)) + 1]_vars

\* a document has had its content replaced in place and is still at its
\* first and only version
InPlaceKeepsVersionReached ==
    /\ last = Outcome("replace_document_content", "ok")
    /\ \E d \in DOMAIN docs :
        /\ docs[d].file_size = FileSize(ContentNext)
        /\ storage[docs[d].storage_path] = ContentNext
        /\ docs[d].current_version = 1
        /\ Len(VersionsOf(versions, d)) = 1

\* C20: a version row keeps its storage_path and file_size for as long as its
\* document exists; the one exception allowed is a replacement in place
\* acting on the document's current version.
VersionRowsImmutable ==
    [][\A i \in 1..Len(versions) :
           versions[i].doc \in DOMAIN docs'
               => \E j \in 1..Len(versions') :
                      /\ versions'[j].doc = versions[i].doc
                      /\ versions'[j].version_number = versions[i].version_number
                      /\ \/ /\ versions'[j].storage_path = versions[i].storage_path
                            /\ versions'[j].file_size = versions[i].file_size
                         \/ /\ last'.op = "replace_document_content"
                            /\ versions[i].version_number
                                   = docs[versions[i].doc].current_version
                            /\ docs'[versions[i].doc].current_version
                                   = docs[versions[i].doc].current_version]_vars

\* a document whose second version came from replace_document has had its
\* content replaced in place, and its first version row is as it was written
VersionRowsImmutableReached ==
    /\ last = Outcome("replace_document_content", "ok")
    /\ \E d \in DOMAIN docs :
        /\ docs[d].current_version = 2
        /\ Len(VersionsOf(versions, d)) = 2
        /\ VersionsOf(versions, d)[2].filename = FileTxt
        /\ VersionsOf(versions, d)[1].file_size = FileSize(ContentNew)
        /\ VersionsOf(versions, d)[1].storage_path
               = GenerateStoragePath(d, 1, VersionsOf(versions, d)[1].filename)

AclOperationsRejectDeleted ==
    \A d \in DOMAIN docs :
        docs[d].status = "deleted" =>
            /\ \A grants \in GrantLists, by \in Agents :
                   LET e == SetPermissionsBulk(d, grants, by)
                   IN  e.result = "NotFound" /\ Untouched(e)
            /\ \A caller \in Agents, filter \in Agents \cup {Absent} :
                   SdkGetPermissions(caller, d, filter).result = "NotFound"
            /\ \A from \in Agents, to \in Agents, by \in Agents :
                   LET e == TransferOwnership(d, from, to, by)
                   IN  e.result = "NotFound" /\ Untouched(e)
            /\ \A a \in Agents, ps \in PermLists :
                   CheckPermissionsMulti(d, a, ps).result = "NotFound"

\* C23: asking for a version number the document does not have, in a
\* restore or in a download of a specific version, fails with NotFound
\* (never Validation) and changes nothing.
MissingVersionIsNotFound ==
    \A d \in DOMAIN docs, n \in 1..MaxVersion :
        (DocVisible(docs, d) /\ n \notin VersionNumbers(versions, d)) =>
            /\ \A a \in Agents :
                   Authorized(d, a, "READ") =>
                       LET e == DownloadDocument(d, a, <<n>>)
                       IN  e.result = "NotFound" /\ Untouched(e)
            /\ \A a \in Agents, env \in PutEnvs :
                   Authorized(d, a, "WRITE") =>
                       LET e == RestoreVersion(d, n, a, env)
                       IN  e.result = "NotFound" /\ Untouched(e)

\* C24: checkPermission fails closed: when the lookup under it fails it
\* answers false, never true, and never ends in an exception.
CheckPermissionFailsClosed ==
    \A d \in DOMAIN docs, a \in Agents, p \in Perms :
        LET e == CheckPermissionDb(d, a, p, "error")
        IN  e.result = "ok" /\ e.out = FALSE

\* C25: getDocumentDetails with include_permissions returns the ACL rows of
\* the document to every caller holding ADMIN, creator or not, and refuses
\* every other caller with PermissionDenied, whatever READ, WRITE or SHARE
\* grants that caller holds.
DetailsPermissionsAdminOnly ==
    \A d \in DOMAIN docs, a \in Agents, iv \in BOOLEAN :
        DocVisible(docs, d) =>
            LET e == GetDocumentDetails(d, a, iv, TRUE)
            IN  IF HoldsGrant(d, a, "ADMIN")
                THEN e.result = "ok" /\ e.out.permissions = RepoAclByDocument(acl, d)
                ELSE e.result = "PermissionDenied"

\* C26: a successful upload of a name that no existing document of the
\* organization carries under that prefix creates exactly one document, with
\* path = prefix ++ name ("/" ++ name without a prefix), current_version 1,
\* exactly one version row, numbered 1, and an ADMIN grant for the uploader.
NewNameCreatesDocument ==
    \A name \in Names, prefix \in Prefixes, a \in Agents, cv \in BOOLEAN, env \in Envs :
        (~\E x \in DOMAIN docs : /\ docs[x].org = Org
                                 /\ docs[x].status = "active"
                                 /\ docs[x].name = name
                                 /\ docs[x].prefix = prefix)
            => LET e == UploadEnhanced(name, prefix, a, ContentNew, None, cv, env)
                   d == nextDocId
               IN  e.result = "ok" =>
                       /\ d \notin DOMAIN docs
                       /\ DOMAIN e.docs = DOMAIN docs \cup {d}
                       /\ \A x \in DOMAIN docs : e.docs[x] = docs[x]
                       /\ e.docs[d].name = name
                       /\ e.docs[d].path = (IF prefix = None THEN <<"/">> ELSE prefix) \o name
                       /\ e.docs[d].current_version = 1
                       /\ Len(VersionsOf(e.versions, d)) = 1
                       /\ VersionNumbers(e.versions, d) = {1}
                       /\ \E r \in AclRows(e.acl) :
                              /\ r.doc = d /\ r.agent = a /\ r.permission = "ADMIN"
                              /\ r.expires_at = None

\* C27: every document's prefix, if set, starts and ends with "/" and holds
\* no "//", and its path is prefix ++ name, or "/" ++ name without a prefix;
\* whichever upload created the document and whatever renames followed.
PathIsPrefixPlusName ==
    \A d \in DOMAIN docs :
        /\ docs[d].prefix # None =>
               /\ docs[d].prefix[1] = "/"
               /\ docs[d].prefix[Len(docs[d].prefix)] = "/"
               /\ ~Contains(docs[d].prefix, <<"/", "/">>)
        /\ docs[d].path = (IF docs[d].prefix = None THEN <<"/">> ELSE docs[d].prefix)
                              \o docs[d].name

\* C28: deleting an organization that still owns an agent or a document
\* fails with a cannot-delete error and removes nothing when force is false;
\* with force it succeeds and the organization, its agents and its documents
\* are gone.
OrganizationDeleteNeedsForce ==
    (Org \in registered.orgs /\ (registered.agents # {} \/ DocsOfOrganization(Org) # {}))
        => /\ LET e == DeleteOrganization(Org, FALSE)
              IN  /\ e.result \in {"PermissionDenied", "DatabaseError"}
                  /\ Untouched(e)
                  /\ e.registered = registered
           /\ LET e == DeleteOrganization(Org, TRUE)
              IN  /\ e.result = "ok"
                  /\ Org \notin e.registered.orgs
                  /\ e.registered.agents = {}
                  /\ DOMAIN e.docs = {}
                  /\ e.versions = <<>>
                  /\ e.acl = EmptyBag

\* a forced deletion has removed the organization together with its agents
\* and with a document, whose stored object is what is left of it
OrganizationDeleteNeedsForceReached ==
    /\ last = Outcome("delete_organization(force)", "ok")
    /\ registered = [orgs |-> {}, agents |-> {}]
    /\ DOMAIN docs = {}
    /\ storage # EmptyFn

\* C29: an agent is removed without force only when it has created no
\* document and holds no ACL row; otherwise the unforced removal is refused
\* and nothing changes.
UnforcedRemovalNeedsIdleAgent ==
    \A a \in Agents, resolves \in BOOLEAN :
        AgentExists(a) =>
            LET e == RemoveAgent(a, FALSE, resolves)
                idle == DocsCreatedBy(a) = {} /\ AclRowsOfAgent(a) = {}
            IN  /\ a \notin e.registered.agents => idle
                /\ ~idle => /\ e.result \in {"PermissionDenied", "DatabaseError"}
                            /\ Untouched(e)
                            /\ e.registered = registered

\* an agent without documents and grants has been removed without force
\* while the other agent's document stayed
UnforcedRemovalReached ==
    /\ last = Outcome("remove_agent", "ok")
    /\ registered.agents # Agents
    /\ \E d \in DOMAIN docs : docs[d].created_by \in registered.agents

\* C30: every document a listing or a search returns is one the calling
\* agent can READ at that time; the documents it cannot read are left out
\* without an error.
ListedDocumentsAreReadable ==
    \A a \in Agents :
        /\ \A q \in ListArgs :
               LET e == ListDocumentsPaginated(a, q)
               IN  /\ e.result = "ok"
                   /\ \A d \in Range(e.out) : d \in DOMAIN docs /\ Authorized(d, a, "READ")
        /\ \A q \in SearchArgs :
               LET e == SearchDocumentsEnhanced(a, q)
               IN  /\ e.result \in {"ok", "Validation"}
                   /\ e.result = "ok" =>
                          \A d \in Range(e.out) :
                              d \in DOMAIN docs /\ Authorized(d, a, "READ")
        /\ AgentExists(a) =>
               LET e == ListAccessibleDocuments(a, None)
               IN  /\ e.result = "ok"
                   /\ \A d \in Range(e.out) : d \in DOMAIN docs /\ Authorized(d, a, "READ")

\* two documents match, the caller can read one of them, and the listing and
\* the search return that one alone
ListedDocumentsAreReadableReached ==
    \E a \in Agents, d1 \in DOMAIN docs, d2 \in DOMAIN docs :
        /\ Authorized(d1, a, "READ")
        /\ ~Authorized(d2, a, "READ")
        /\ docs[d1].status = "active" /\ docs[d2].status = "active"
        /\ \E q \in ListArgs :
               /\ {d1, d2} \subseteq Range(ListCandidates(q))
               /\ Range(ListDocumentsPaginated(a, q).out) = {d1}
        /\ \E q \in SearchArgs :
               /\ {d1, d2} \subseteq Range(RepoSearchByName(q.query, q.limit))
               /\ Range(SearchDocumentsEnhanced(a, q).out) = {d1}

\* every candidate of a listing or a search, before any page is cut
AllListCandidates(q) == ListCandidates([q EXCEPT !.limit = MaxDocs + 1, !.offset = 0])
AllSearchCandidates(q) ==
    SelectSeq(RepoSearchByName(q.query, MaxDocs + 1),
              LAMBDA d :
                  /\ (q.prefix # None =>
                          /\ SearchRowPrefix(d) # None
                          /\ StartsWith(SearchRowPrefix(d), q.prefix))
                  /\ (q.status # None => docs[d].status = q.status[1]))

\* C31: in list and in search the documents returned for (limit, offset) are
\* exactly the READable members of candidates[offset, offset + limit): the
\* window is cut before the READ filter, so a page holds at most limit
\* documents and may hold fewer while more candidates exist.
PageIsFilteredWindow ==
    \A a \in Agents :
        /\ \A q \in ListArgs :
               LET e == ListDocumentsPaginated(a, q)
               IN  /\ e.out = SelectSeq(Window(AllListCandidates(q), q.limit, q.offset),
                                        LAMBDA d : Authorized(d, a, "READ"))
                   /\ Len(e.out) <= q.limit
        /\ \A q \in SearchArgs :
               LET e == SearchDocumentsEnhanced(a, q)
               IN  e.result = "ok" =>
                       /\ e.out = SelectSeq(Window(AllSearchCandidates(q), q.limit, q.offset),
                                            LAMBDA d : Authorized(d, a, "READ"))
                       /\ Len(e.out) <= q.limit

\* the '/'-delimited segments of path beyond prefix
SegmentsBeyond(path, prefix) ==
    CountToken(SubSeq(path, Len(prefix) + 1, Len(path)), "/") + 1

\* C32: list_recursive with max_depth = n returns the documents under the
\* prefix whose path beyond the prefix has at most n segments, only those,
\* and every one of them that is not deleted.
RecursiveDepthBound ==
    \A prefix \in {PrefixP, <<"/">>}, n \in {1} :
        LET out == RepoListRecursive(prefix, <<n>>, MaxDocs + 1, 0)
        IN  \A d \in DOMAIN docs :
                d \in Range(out) <=>
                    /\ docs[d].status # "deleted"
                    /\ docs[d].path # None
                    /\ StartsWith(docs[d].path, prefix)
                    /\ SegmentsBeyond(docs[d].path, prefix) <= n

\* C33: a hard delete of a document by a holder of DELETE succeeds and
\* leaves no document row, no version row and no ACL row of that document,
\* whichever of its stored objects could not be removed.
HardDeleteRemovesRows ==
    \A d \in DOMAIN docs, a \in Agents :
        (DocVisible(docs, d) /\ Authorized(d, a, "DELETE")) =>
            \A failed \in SUBSET HardDeletePaths(d) :
                LET e == DeleteDocument(d, a, TRUE, failed)
                IN  /\ e.result = "ok"
                    /\ d \notin DOMAIN e.docs
                    /\ \A i \in 1..Len(e.versions) : e.versions[i].doc # d
                    /\ \A r \in AclRows(e.acl) : r.doc # d

\* a document has been hard deleted while the removal of the object of its
\* version 1 failed: the object is still stored, every row is gone
HardDeleteRemovesRowsReached ==
    /\ last = Outcome("delete", "ok")
    /\ \E sp \in DOMAIN storage :
        /\ sp[2] = 1
        /\ sp[1] \notin DOMAIN docs
        /\ \A i \in 1..Len(versions) : versions[i].doc # sp[1]
        /\ \A r \in AclRows(acl) : r.doc # sp[1]

\* the tables and the object store
Data == <<docs, versions, acl, storage, nextDocId, registered>>

\* C34: while the SDK is not initialized every public operation raises
\* RuntimeError and leaves the database and the object store alone; after
\* __aexit__ every handle is released and the SDK reports not initialized.
OutsideSessionRaisesRuntimeError ==
    /\ [][(~sdk.initialized /\ calls' = calls + 1 /\ last'.op \in SdkOps) =>
            (last'.result = "RuntimeError" /\ UNCHANGED Data)]_vars
    /\ [](last.op = "__aexit__" =>
            /\ ~sdk.initialized
            /\ \A h \in DOMAIN sdk \ {"initialized"} : sdk[h] = "None")

\* the ADMIN rows table A holds for document d, with their multiplicity
AdminGrantsOf(A, d) ==
    LET rows == {r \in DOMAIN A : r.doc = d /\ r.permission = "ADMIN"}
    IN  [r \in rows |-> A[r]]

\* C35: setPermissions called by an agent without an ADMIN grant on the
\* document leaves the document's ADMIN rows as they were: none created,
\* none removed, whatever the grant list.
OnlyAdminChangesAdminGrants ==
    \A d \in DOMAIN docs, by \in Agents, grants \in GrantLists :
        ~HoldsGrant(d, by, "ADMIN") =>
            AdminGrantsOf(SetPermissionsBulk(d, grants, by).acl, d)
                = AdminGrantsOf(acl, d)

\* how many copies of row r table A holds
RowCount(A, r) == IF r \in DOMAIN A THEN A[r] ELSE 0

FailedInPlaceReplaceKeepsContent ==
    \A d \in DOMAIN docs, a \in Agents, env \in Envs :
        LET e == ReplaceDocumentContent(d, a, ContentNext, None, FALSE, env)
            sp == docs[d].storage_path
        IN  (/\ DocVisible(docs, d) /\ Authorized(d, a, "WRITE")
             /\ ~env.put /\ sp \in DOMAIN storage) =>
                /\ e.result = "StorageError"
                /\ e.docs = docs /\ e.versions = versions
                /\ sp \in DOMAIN e.storage
                /\ e.storage[sp] = storage[sp]

\* listDocuments arguments that combine a status filter with a prefix filter
CombinedListArgs ==
    [prefix : {None, PrefixP}, recursive : BOOLEAN, max_depth : {None},
     status : {None, <<"active">>, <<"deleted">>}, limit : {MaxDocs}, offset : {0}]

\* C38: every document listDocuments returns has the requested status when
\* a status is given and lies under the requested prefix when a prefix is
\* given, also when both are given.
ListedDocumentsMatchEveryFilter ==
    \A a \in Agents, q \in CombinedListArgs :
        LET out == ListDocumentsPaginated(a, q).out
        IN  \A i \in 1..Len(out) :
                /\ q.status # None => docs[out[i]].status = q.status[1]
                /\ q.prefix # None =>
                      /\ docs[out[i]].prefix # None
                      /\ StartsWith(docs[out[i]].prefix, q.prefix)

====
